---- MODULE Spec2Model ----
(***************************************************************************)
(* Electrical Circuit Laws: the navigation groups and the three calculator *)
(* panels of src/lab.js (script "lab") and of src/unnamed/part_000         *)
(* (script "part0"), as a state machine over the markup document.          *)
(***************************************************************************)
EXTENDS Integers, Sequences, FiniteSets, TLC

(***************************************************************************)
(* JavaScript Numbers.  A Number is an IEEE-754 double: a sign and a       *)
(* magnitude of at most Precision significant bits.  The magnitude is held *)
(* exactly, as an integer count of 2^-FracBits, in little-endian limbs of  *)
(* LimbBits bits (TLC's integers are 32 bits wide).  Every double d with   *)
(* 2^-22 <= |d| < 2^30, and every sum or difference of two such doubles,    *)
(* is such a count; slider values and their quotients stay in that range.  *)
(***************************************************************************)
Precision == 53
LimbBits == 15
FracLimbs == 5
NumLimbs == 7
Base == 2 ^ LimbBits
FracBits == FracLimbs * LimbBits

ZeroMag == [i \in 1..NumLimbs |-> 0]

IsZeroMag(N) == \A i \in 1..Len(N) : N[i] = 0

\* bit i (0 = least significant) of the magnitude N
Bit(N, i) == (N[(i \div LimbBits) + 1] \div (2 ^ (i % LimbBits))) % 2

\* whether any bit of N below position i is set
LowBitsSet(N, i) ==
    \/ \E j \in 1..(i \div LimbBits) : N[j] # 0
    \/ N[(i \div LimbBits) + 1] % (2 ^ (i % LimbBits)) # 0

RECURSIVE TopBitOfLimb(_, _)
TopBitOfLimb(x, b) == IF x \div (2 ^ b) = 1 THEN b ELSE TopBitOfLimb(x, b - 1)

\* position of the highest set bit of N, -1 for zero
TopBit(N) ==
    IF IsZeroMag(N) THEN -1
    ELSE LET j == CHOOSE k \in 1..Len(N) :
                     N[k] # 0 /\ \A m \in (k + 1)..Len(N) : N[m] = 0
         IN  (j - 1) * LimbBits + TopBitOfLimb(N[j], LimbBits - 1)

RECURSIVE AddLimbs(_, _, _, _)
AddLimbs(A, B, i, carry) ==
    IF i > Len(A) THEN <<>>
    ELSE LET s == A[i] + B[i] + carry
         IN  <<s % Base>> \o AddLimbs(A, B, i + 1, s \div Base)

MagAdd(A, B) == AddLimbs(A, B, 1, 0)

RECURSIVE SubLimbs(_, _, _, _)
SubLimbs(A, B, i, borrow) ==
    IF i > Len(A) THEN <<>>
    ELSE LET s == A[i] - B[i] - borrow
         IN  IF s < 0 THEN <<s + Base>> \o SubLimbs(A, B, i + 1, 1)
             ELSE <<s>> \o SubLimbs(A, B, i + 1, 0)

\* A - B for A >= B
MagSub(A, B) == SubLimbs(A, B, 1, 0)

RECURSIVE LessFrom(_, _, _)
LessFrom(A, B, i) ==
    IF i = 0 THEN FALSE
    ELSE IF A[i] # B[i] THEN A[i] < B[i]
    ELSE LessFrom(A, B, i - 1)

MagLess(A, B) == LessFrom(A, B, Len(A))

\* the magnitude 2^i
Pow2Mag(n, i) ==
    [j \in 1..n |-> IF j = (i \div LimbBits) + 1 THEN 2 ^ (i % LimbBits) ELSE 0]

\* N with the bits below position r cleared
Truncate(N, r) ==
    [j \in 1..Len(N) |->
        IF j < (r \div LimbBits) + 1 THEN 0
        ELSE IF j = (r \div LimbBits) + 1
             THEN (N[j] \div (2 ^ (r % LimbBits))) * (2 ^ (r % LimbBits))
        ELSE N[j]]

\* Round to nearest, ties to even, at Precision significant bits.  sticky
\* says that the exact value lies strictly above N (bits cut off below).
RoundToDouble(N, sticky) ==
    LET p == TopBit(N)
        r == p - (Precision - 1)
    IN  IF r <= 0 THEN N
        ELSE LET half == Bit(N, r - 1) = 1
                 rest == LowBitsSet(N, r - 1) \/ sticky
                 odd  == Bit(N, r) = 1
                 down == Truncate(N, r)
             IN  IF half /\ (rest \/ odd)
                 THEN MagAdd(down, Pow2Mag(Len(N), r))
                 ELSE down

Number(neg, mag) == [neg |-> neg /\ ~IsZeroMag(mag), mag |-> mag]

Zero == Number(FALSE, ZeroMag)

Negate(x) == Number(~x.neg, x.mag)

\* Math.abs
Abs(x) == Number(FALSE, x.mag)

\* x + y, correctly rounded
Plus(x, y) ==
    IF x.neg = y.neg
    THEN Number(x.neg, RoundToDouble(MagAdd(x.mag, y.mag), FALSE))
    ELSE IF MagLess(x.mag, y.mag)
         THEN Number(y.neg, RoundToDouble(MagSub(y.mag, x.mag), FALSE))
         ELSE Number(x.neg, RoundToDouble(MagSub(x.mag, y.mag), FALSE))

\* x - y, correctly rounded
Minus(x, y) == Plus(x, Negate(y))

\* x < y
LessThan(x, y) ==
    IF x.neg /\ ~y.neg THEN TRUE
    ELSE IF ~x.neg /\ y.neg THEN FALSE
    ELSE IF x.neg THEN MagLess(y.mag, x.mag)
    ELSE MagLess(x.mag, y.mag)

\* Long division, the bits b..0 of limb i of the dividend D: the quotient
\* limb collected in q and the remainder carried on.
RECURSIVE DivBits(_, _, _, _, _, _)
DivBits(D, Y, i, b, rem, q) ==
    IF b < 0 THEN [quot |-> q, rem |-> rem]
    ELSE LET r2 == AddLimbs(rem, rem, 1, (D[i] \div (2 ^ b)) % 2)
         IN  IF MagLess(r2, Y)
             THEN DivBits(D, Y, i, b - 1, r2, q)
             ELSE DivBits(D, Y, i, b - 1, MagSub(r2, Y), q + 2 ^ b)

\* Long division of D by Y from limb i down: the quotient limbs below Q
RECURSIVE DivLimbs(_, _, _, _, _)
DivLimbs(D, Y, i, rem, Q) ==
    IF i = 0 THEN [quot |-> Q, rem |-> rem]
    ELSE LET r == DivBits(D, Y, i, LimbBits - 1, rem, 0)
         IN  DivLimbs(D, Y, i - 1, r.rem, <<r.quot>> \o Q)

\* The values of a division by zero.  They are no magnitudes: a limb of a
\* magnitude is below Base.
Infinity(neg) == [neg |-> neg, mag |-> <<Base>>]

NaN == [neg |-> FALSE, mag |-> <<Base, Base>>]

isFinite(x) == Len(x.mag) = NumLimbs

\* x / y of finite x and y, correctly rounded; x / 0 is an Infinity, and
\* 0 / 0 is NaN
Divide(x, y) ==
    IF y = Zero THEN (IF x = Zero THEN NaN ELSE Infinity(x.neg))
    ELSE LET D == [i \in 1..FracLimbs |-> 0] \o x.mag
             Y == y.mag \o <<0>>
             r == DivLimbs(D, Y, Len(D), [i \in 1..(NumLimbs + 1) |-> 0], <<>>)
         IN  Number(x.neg # y.neg,
                    RoundToDouble(SubSeq(r.quot, 1, NumLimbs), ~IsZeroMag(r.rem)))

(***************************************************************************)
(* A slider's value attribute is a decimal string; it is held as the       *)
(* integer count of 1/DecimalScale it denotes ("10.01" is 10010).          *)
(***************************************************************************)
DecimalScale == 1000

RECURSIVE FracDigits(_, _)
FracDigits(r, k) ==
    IF k = 0 THEN <<>>
    ELSE FracDigits((r * Base) % DecimalScale, k - 1)
             \o <<(r * Base) \div DecimalScale>>

RECURSIVE FracRemainder(_, _)
FracRemainder(r, k) ==
    IF k = 0 THEN r ELSE FracRemainder((r * Base) % DecimalScale, k - 1)

\* parseFloat of the decimal string denoting n / DecimalScale: the nearest double
parseFloat(n) ==
    LET a  == IF n < 0 THEN -n ELSE n
        ip == a \div DecimalScale
        fr == a % DecimalScale
        exact == FracDigits(fr, FracLimbs) \o <<ip % Base, ip \div Base>>
    IN  Number(n < 0, RoundToDouble(exact, FracRemainder(fr, FracLimbs) # 0))

RECURSIVE MulLimbs(_, _, _, _)
MulLimbs(N, m, i, carry) ==
    IF i > Len(N) THEN <<carry>>
    ELSE LET s == N[i] * m + carry
         IN  <<s % Base>> \o MulLimbs(N, m, i + 1, s \div Base)

RECURSIVE Digits(_, _)
Digits(f, d) == IF d = 0 THEN "" ELSE Digits(f \div 10, d - 1) \o ToString(f % 10)

\* Number.prototype.toFixed(d): the integer n with n / 10^d nearest to |x|,
\* the larger one of two, written with d decimals and the sign of x
toFixedFinite(x, d) ==
    LET scaled == MulLimbs(x.mag, 10 ^ d, 1, 0)
        up     == MagAdd(scaled, Pow2Mag(Len(scaled), FracBits - 1))
        n      == up[FracLimbs + 1] + Base * up[FracLimbs + 2]
    IN  (IF x.neg THEN "-" ELSE "")
            \o ToString(n \div (10 ^ d))
            \o (IF d = 0 THEN "" ELSE "." \o Digits(n % (10 ^ d), d))

\* a value that is not finite is written by name
toFixed(x, d) ==
    IF isFinite(x) THEN toFixedFinite(x, d)
    ELSE IF x = NaN THEN "NaN"
    ELSE (IF x.neg THEN "-" ELSE "") \o "Infinity"

(***************************************************************************)
(* The markup document.  An element is named by its id attribute; the      *)
(* selectors (nav buttons or links, data nav buttons, element tabs) carry  *)
(* no id and are named by their position in their list.                    *)
(***************************************************************************)
Scripts == {"lab", "part0"}

Groups == {"main", "data", "tabs"}

\* .nav-btn (lab) or .nav-link (part0), .data-nav-btn, .element-tab
Selectors(g) ==
    CASE g = "main" -> {"nav1", "nav2"}
      [] g = "data" -> {"data1", "data2"}
      [] g = "tabs" -> {"tab1", "tab2"}

\* .content-section, .data-subsection, .element-panel
Sections(g) ==
    CASE g = "main" -> {"s1", "s2"}
      [] g = "data" -> {"d1-subsection", "d2-subsection"}
      [] g = "tabs" -> {"e1-panel", "e2-panel"}

AllSelectors == UNION {Selectors(g) : g \in Groups}

AllSections == UNION {Sections(g) : g \in Groups}

GroupOf(sel) == CHOOSE g \in Groups : sel \in Selectors(g)

Panels == {"ohm", "kcl", "kvl"}

Sliders(p) ==
    CASE p = "ohm" -> {"voltage", "resistance"}
      [] p = "kcl" -> {"i1", "i2"}
      [] p = "kvl" -> {"source-voltage", "v1", "v2"}

Displays(p) ==
    CASE p = "ohm" -> {"voltage-value", "resistance-value", "current-value"}
      [] p = "kcl" -> {"i1-value", "i2-value", "i3-value"}
      [] p = "kvl" -> {"source-voltage-value", "v1-value", "v2-value",
                       "voltage-sum-value", "kvl-validation"}

AllSliders == UNION {Sliders(p) : p \in Panels}

AllDisplays == UNION {Displays(p) : p \in Panels}

PanelOf(sl) == CHOOSE p \in Panels : sl \in Sliders(p)

NavElements == AllSelectors \cup AllSections

PanelElements == AllSliders \cup AllDisplays

AllElements == NavElements \cup PanelElements

\* the elements that document.getElementById can find
IdElements == AllSections \cup PanelElements

\* An attribute value: <<>> when the attribute is absent (getAttribute
\* returns null), <<s>> when it is the string s.
NoAttribute == <<>>

\* the markup as written: selector k names section k of its group
DefaultAttr ==
    [sel \in AllSelectors |->
        CASE sel = "nav1"  -> <<"s1">>
          [] sel = "nav2"  -> <<"s2">>
          [] sel = "data1" -> <<"d1">>
          [] sel = "data2" -> <<"d2">>
          [] sel = "tab1"  -> <<"e1">>
          [] sel = "tab2"  -> <<"e2">>]

\* the markup as written: the first selector and the first section of
\* every group carry the class "active"
DefaultActive ==
    {"nav1", "s1", "data1", "d1-subsection", "tab1", "e1-panel"}

\* the text of a display before any script has written to it
Placeholder == "--"

VARIABLES
    script,     \* which of the two scripts the page loads
    present,    \* the elements of the document
    attr,       \* selector -> its data-section / data-subsection / data-element
    active,     \* the elements whose class list holds "active"
    value,      \* slider -> its value attribute, in 1/DecimalScale
    text,       \* display -> its textContent
    color,      \* style.color of #kvl-validation
    listeners,  \* the elements with a registered click or input listener
    phase,      \* "loading" before DOMContentLoaded, "ready" after initApp
    event,      \* the event dispatched last
    threw,      \* whether the handler of that event ended in an uncaught error
    logged,     \* what that handler wrote to the console
    nEvents,    \* number of user events dispatched so far (session budget)
    args,       \* arguments of the direct call of a pure function
    result      \* <<>> or <<r>>, r the value that call returned

vars == <<script, present, attr, active, value, text, color, listeners, phase,
          event, threw, logged, nEvents, args, result>>

markup == <<script, present, attr>>

Event(type, target) == [type |-> type, target |-> target]

\* document.getElementById(id): <<>> for null
getElementById(id) == IF id \in present \cap IdElements THEN <<id>> ELSE <<>>

\* the string a value of getAttribute becomes under + or as an argument
String(a) == IF a = NoAttribute THEN "null" ELSE a[1]

\* !a for a value of getAttribute: null and the empty string are falsy
Falsy(a) == a = NoAttribute \/ a[1] = ""

\* document.querySelectorAll of a group's selector and section classes
querySelectors(g) == present \cap Selectors(g)

querySections(g) == present \cap Sections(g)

\* what a handler leaves behind
Outcome(act, log, thrown) == [active |-> act, logged |-> log, threw |-> thrown]

\* ClearGroup with the sections forgotten: only the selectors are cleared
ClearGroup_selectorsOnly(g) == active \ querySelectors(g)

\* ClearGroup over the whole document: every .active element is cleared
ClearGroup_everywhere(g) == active \ NavElements

\* classList.remove('active') on every selector and section of group g
ClearGroup(g) == active \ (querySelectors(g) \cup querySections(g))

(***************************************************************************)
(* Navigation of src/lab.js                                                *)
(***************************************************************************)

\* lab.js initNavigation: the buttons that get a click listener
initNavigation ==
    IF querySelectors("main") = {}
    THEN [listeners |-> {}, logged |-> {"error: Navigation buttons not found!"}]
    ELSE IF querySections("main") = {}
    THEN [listeners |-> {}, logged |-> {"error: Content sections not found!"}]
    ELSE [listeners |-> querySelectors("main"), logged |-> {}]

\* lab.js initNavigation, the click listener of a nav button
navButtonClick(button) ==
    LET targetSection == attr[button]
    IN  IF Falsy(targetSection)
        THEN Outcome(active, {"error: No data-section attribute found on button"}, FALSE)
        ELSE LET targetElement == getElementById(targetSection[1])
             IN  IF targetElement = <<>>
                 THEN Outcome(active, {"error: Target section not found"}, FALSE)
                 ELSE Outcome(ClearGroup("main") \cup {button, targetElement[1]},
                              {}, FALSE)

\* lab.js initElementTabs
initElementTabsLab ==
    IF querySelectors("tabs") = {} \/ querySections("tabs") = {}
    THEN [listeners |-> {}, logged |-> {}]
    ELSE [listeners |-> querySelectors("tabs"), logged |-> {}]

\* lab.js initElementTabs, the click listener of an element tab
elementTabClickLab(tab) ==
    LET targetElement == attr[tab]
    IN  IF Falsy(targetElement)
        THEN Outcome(active, {"error: No data-element attribute found on tab"}, FALSE)
        ELSE LET targetPanel == getElementById(targetElement[1] \o "-panel")
             IN  IF targetPanel = <<>>
                 THEN Outcome(active, {"error: Target panel not found"}, FALSE)
                 ELSE Outcome(ClearGroup("tabs") \cup {tab, targetPanel[1]},
                              {}, FALSE)

(***************************************************************************)
(* Navigation of src/unnamed/part_000                                      *)
(***************************************************************************)

\* part_000 initMainNavigation: every nav link gets a click listener
initMainNavigation == [listeners |-> querySelectors("main"), logged |-> {}]

\* part_000 initMainNavigation, the click listener of a nav link.  The
\* class lists are cleared and the link marked before the target is looked
\* up; getElementById(...) of a missing target is null, and .classList of
\* null throws a TypeError.
navLinkClick(link) ==
    LET targetSection == attr[link]
        marked == ClearGroup("main") \cup {link}
        target == getElementById(String(targetSection))
    IN  IF target = <<>>
        THEN Outcome(marked, {}, TRUE)
        ELSE Outcome(marked \cup {target[1]}, {}, FALSE)

\* part_000 initDataNavigation
initDataNavigation == [listeners |-> querySelectors("data"), logged |-> {}]

\* part_000 initDataNavigation, the click listener of a data nav button
dataNavButtonClick(button) ==
    LET targetSubsection == attr[button]
        marked == ClearGroup("data") \cup {button}
        targetElement == getElementById(String(targetSubsection) \o "-subsection")
    IN  IF targetElement # <<>>
        THEN Outcome(marked \cup {targetElement[1]}, {}, FALSE)
        ELSE Outcome(marked, {}, FALSE)

\* part_000 initElementTabs
initElementTabs == [listeners |-> querySelectors("tabs"), logged |-> {}]

\* part_000 initElementTabs, the click listener of an element tab
elementTabClick(tab) ==
    LET targetElement == attr[tab]
    IN  IF Falsy(targetElement) THEN Outcome(active, {}, FALSE)
        ELSE LET targetPanel == getElementById(targetElement[1] \o "-panel")
             IN  IF targetPanel = <<>> THEN Outcome(active, {}, FALSE)
                 ELSE Outcome(ClearGroup("tabs") \cup {tab, targetPanel[1]},
                              {}, FALSE)

\* the click listener the loaded script registered on selector sel
ClickListener(sel) ==
    CASE script = "lab" /\ GroupOf(sel) = "main"   -> navButtonClick(sel)
      [] script = "lab" /\ GroupOf(sel) = "tabs"   -> elementTabClickLab(sel)
      [] script = "part0" /\ GroupOf(sel) = "main" -> navLinkClick(sel)
      [] script = "part0" /\ GroupOf(sel) = "data" -> dataNavButtonClick(sel)
      [] script = "part0" /\ GroupOf(sel) = "tabs" -> elementTabClick(sel)

(***************************************************************************)
(* The three laws (the same in both scripts)                               *)
(***************************************************************************)

\* calculateOhmsLaw without its guard
calculateOhmsLaw_unguarded(voltage, resistance) == Divide(voltage, resistance)

calculateOhmsLaw(voltage, resistance) ==
    IF resistance = Zero THEN Zero ELSE Divide(voltage, resistance)

\* calculateKCL with - for +
calculateKCL_difference(i1, i2) == Minus(i1, i2)

calculateKCL(i1, i2) == Plus(i1, i2)

calculateKVL(v1, v2) == Plus(v1, v2)

\* const tolerance = 0.01
tolerance == parseFloat(10)

\* isKVLBalanced as an exact comparison
isKVLBalanced_exact(sourceVoltage, voltageSum) == sourceVoltage = voltageSum

\* isKVLBalanced without Math.abs
isKVLBalanced_signed(sourceVoltage, voltageSum) ==
    LessThan(Minus(sourceVoltage, voltageSum), tolerance)

isKVLBalanced(sourceVoltage, voltageSum) ==
    LessThan(Abs(Minus(sourceVoltage, voltageSum)), tolerance)

(***************************************************************************)
(* The calculator panels.  The positions a slider can be dragged to; the   *)
(* first one listed under DefaultValue is the value attribute of the       *)
(* markup.                                                                 *)
(***************************************************************************)
SliderValues(sl) ==
    CASE sl = "voltage"        -> {10000, 0}
      [] sl = "resistance"     -> {5000, 0, 3000}
      [] sl = "i1"             -> {3000, 100}
      [] sl = "i2"             -> {4000, 200}
      [] sl = "source-voltage" -> {12000, 10010}
      [] sl = "v1"             -> {5000, 10000}
      [] sl = "v2"             -> {6000, 7000, 0}

\* further positions of the KVL sliders, for sessions on that panel alone
FineValues(sl) ==
    CASE sl = "source-voltage" -> {300, 10, 10000}
      [] sl = "v1"             -> {100, 0}
      [] sl = "v2"             -> {200}
      [] OTHER                 -> {}

Positions(sl) == SliderValues(sl) \cup FineValues(sl)

DefaultValue ==
    [sl \in AllSliders |->
        CASE sl = "voltage"        -> 10000
          [] sl = "resistance"     -> 5000
          [] sl = "i1"             -> 3000
          [] sl = "i2"             -> 4000
          [] sl = "source-voltage" -> 12000
          [] sl = "v1"             -> 5000
          [] sl = "v2"             -> 6000]

\* the unit a display appends; the ohm sign is written out
Unit(sl) ==
    CASE sl \in {"voltage", "source-voltage", "v1", "v2"} -> " V"
      [] sl = "resistance" -> " Ohm"
      [] sl \in {"i1", "i2"} -> " A"

\* display.textContent = parseFloat(slider.value).toFixed(1) + unit
ValueText == 
    [sl \in AllSliders |->
        [n \in Positions(sl) |-> toFixed(parseFloat(n), 1) \o Unit(sl)]]

\* updateOhmsLawCurrent: what it writes to #current-value
CurrentText ==
    [v \in SliderValues("voltage"), r \in SliderValues("resistance") |->
        toFixed(calculateOhmsLaw(parseFloat(v), parseFloat(r)), 2) \o " A"]

\* updateKCLCurrent: what it writes to #i3-value
OutgoingText ==
    [a \in SliderValues("i1"), b \in SliderValues("i2") |->
        toFixed(calculateKCL(parseFloat(a), parseFloat(b)), 2) \o " A"]

\* ValidationText with the difference taken without Math.abs
ValidationText_signed ==
    [s \in Positions("source-voltage"), a \in Positions("v1"),
     b \in Positions("v2") |->
        LET sourceVoltage == parseFloat(s)
            voltageSum == calculateKVL(parseFloat(a), parseFloat(b))
        IN  IF isKVLBalanced(sourceVoltage, voltageSum)
            THEN [sum |-> toFixed(voltageSum, 2) \o " V",
                  status |-> "Equation is balanced",
                  color |-> "#4ade80"]
            ELSE LET difference == Minus(sourceVoltage, voltageSum)
                 IN  [sum |-> toFixed(voltageSum, 2) \o " V",
                      status |-> "Difference: " \o toFixed(difference, 2) \o " V",
                      color |-> "#fbbf24"]]

\* validateKVL: what it writes to #voltage-sum-value and #kvl-validation
\* (the status texts without their symbols, alike for both scripts)
ValidationText ==
    [s \in Positions("source-voltage"), a \in Positions("v1"),
     b \in Positions("v2") |->
        LET sourceVoltage == parseFloat(s)
            voltageSum == calculateKVL(parseFloat(a), parseFloat(b))
        IN  IF isKVLBalanced(sourceVoltage, voltageSum)
            THEN [sum |-> toFixed(voltageSum, 2) \o " V",
                  status |-> "Equation is balanced",
                  color |-> "#4ade80"]
            ELSE LET difference == Abs(Minus(sourceVoltage, voltageSum))
                 IN  [sum |-> toFixed(voltageSum, 2) \o " V",
                      status |-> "Difference: " \o toFixed(difference, 2) \o " V",
                      color |-> "#fbbf24"]]

\* A handler's writes to the document, in order: <<display, textContent>>,
\* and <<StyleColor, colour>> for validationDisplay.style.color
StyleColor == "kvl-validation.style.color"

Write(target, content) == <<target, content>>

\* the content of target after the writes ws, old if none of them is to it
After(ws, target, old) ==
    LET hits == {i \in 1..Len(ws) : ws[i][1] = target}
    IN  IF hits = {} THEN old
        ELSE ws[CHOOSE i \in hits : \A j \in hits : j <= i][2]

updateOhmsLawCurrent(val) ==
    <<Write("current-value", CurrentText[val["voltage"], val["resistance"]])>>

updateVoltage(val) ==
    <<Write("voltage-value", ValueText["voltage"][val["voltage"]])>>
        \o updateOhmsLawCurrent(val)

\* updateResistance without its call of updateOhmsLawCurrent
updateResistance_stale(val) ==
    <<Write("resistance-value", ValueText["resistance"][val["resistance"]])>>

updateResistance(val) ==
    <<Write("resistance-value", ValueText["resistance"][val["resistance"]])>>
        \o updateOhmsLawCurrent(val)

updateKCLCurrent(val) ==
    <<Write("i3-value", OutgoingText[val["i1"], val["i2"]])>>

updateI1(val) ==
    <<Write("i1-value", ValueText["i1"][val["i1"]])>> \o updateKCLCurrent(val)

updateI2(val) ==
    <<Write("i2-value", ValueText["i2"][val["i2"]])>> \o updateKCLCurrent(val)

ValidationWrites(v) ==
    <<Write("voltage-sum-value", v.sum),
      Write("kvl-validation", v.status),
      Write(StyleColor, v.color)>>

validateKVL(val) ==
    ValidationWrites(ValidationText[val["source-voltage"], val["v1"], val["v2"]])

updateSourceVoltage(val) ==
    <<Write("source-voltage-value",
            ValueText["source-voltage"][val["source-voltage"]])>>
        \o validateKVL(val)

updateV1(val) ==
    <<Write("v1-value", ValueText["v1"][val["v1"]])>> \o validateKVL(val)

updateV2(val) ==
    <<Write("v2-value", ValueText["v2"][val["v2"]])>> \o validateKVL(val)

\* the input listener registered on slider sl
InputListener(sl, val) ==
    CASE sl = "voltage"        -> updateVoltage(val)
      [] sl = "resistance"     -> updateResistance(val)
      [] sl = "i1"             -> updateI1(val)
      [] sl = "i2"             -> updateI2(val)
      [] sl = "source-voltage" -> updateSourceVoltage(val)
      [] sl = "v1"             -> updateV1(val)
      [] sl = "v2"             -> updateV2(val)

\* the guard of initOhmsLaw, initKCL and initKVL: some element is null
ElementsMissing(p) == ~((Sliders(p) \cup Displays(p)) \subseteq present)

\* what a panel's init leaves behind
Inited(ws, ls, log) == [writes |-> ws, listeners |-> ls, logged |-> log]

\* console.warn of lab.js; part_000 returns without a message
SkipWarning(message) == IF script = "lab" THEN {message} ELSE {}

\* initOhmsLaw without its closing calls of the three update functions
initOhmsLaw_listenersOnly ==
    IF ElementsMissing("ohm")
    THEN Inited(<<>>, {},
                SkipWarning("warn: Ohm's Law elements not found, skipping initialization"))
    ELSE Inited(<<>>, {"voltage", "resistance"}, {})

initOhmsLaw ==
    IF ElementsMissing("ohm")
    THEN Inited(<<>>, {},
                SkipWarning("warn: Ohm's Law elements not found, skipping initialization"))
    ELSE Inited(updateVoltage(value) \o updateResistance(value)
                    \o updateOhmsLawCurrent(value),
                {"voltage", "resistance"}, {})

initKCL ==
    IF ElementsMissing("kcl")
    THEN Inited(<<>>, {},
                SkipWarning("warn: KCL elements not found, skipping initialization"))
    ELSE Inited(updateI1(value) \o updateI2(value) \o updateKCLCurrent(value),
                {"i1", "i2"}, {})

initKVL ==
    IF ElementsMissing("kvl")
    THEN Inited(<<>>, {},
                SkipWarning("warn: KVL elements not found, skipping initialization"))
    ELSE Inited(updateSourceVoltage(value) \o updateV1(value) \o updateV2(value)
                    \o validateKVL(value),
                {"source-voltage", "v1", "v2"}, {})

\* what initApp leaves behind: the inits' writes, listeners and messages
\* in the order of the calls, and the closing console.log
AppInited(nav1, nav2, nav3, ohm, kcl, kvl) ==
    [writes |-> ohm.writes \o kcl.writes \o kvl.writes,
     listeners |-> nav1.listeners \cup nav2.listeners \cup nav3.listeners
                     \cup ohm.listeners \cup kcl.listeners \cup kvl.listeners,
     logged |-> nav1.logged \cup nav2.logged \cup nav3.logged
                  \cup ohm.logged \cup kcl.logged \cup kvl.logged
                  \cup {"log: initialized successfully!"}]

\* initApp: the navigation of the loaded script, then the three panels
initApp ==
    AppInited(IF script = "lab" THEN initNavigation ELSE initMainNavigation,
              IF script = "lab" THEN [listeners |-> {}, logged |-> {}]
              ELSE initDataNavigation,
              IF script = "lab" THEN initElementTabsLab ELSE initElementTabs,
              initOhmsLaw, initKCL, initKVL)

\* the document's displays once the writes ws are done
Written(ws) == [d \in AllDisplays |-> After(ws, d, text[d])]

\* the writes ws take effect
DomWritten(ws) ==
    /\ text' = Written(ws)
    /\ color' = After(ws, StyleColor, color)

\* the outcome o of a click listener takes effect
ClickDone(o) ==
    /\ active' = o.active
    /\ logged' = o.logged
    /\ threw' = o.threw

\* what initApp left behind takes effect
AppDone(r) ==
    /\ listeners' = r.listeners
    /\ DomWritten(r.writes)
    /\ logged' = r.logged

(***************************************************************************)
(* Markup documents.  A document is the markup as written, changed in at   *)
(* most MaxDefects places: an element left out, or a selector's target     *)
(* attribute left out, left empty, or naming another section of its group  *)
(* or no element at all ("ghost").                                         *)
(***************************************************************************)
MaxDefects == 2

\* the number of user events of a session of the whole page
MaxEvents == 2

AttrValues(sel) ==
    CASE GroupOf(sel) = "main" ->
            {NoAttribute, <<"">>, <<"s1">>, <<"s2">>, <<"ghost">>}
      [] GroupOf(sel) = "data" ->
            {NoAttribute, <<"d1">>, <<"d2">>, <<"ghost">>}
      [] GroupOf(sel) = "tabs" ->
            {NoAttribute, <<"">>, <<"e1">>, <<"e2">>, <<"ghost">>}

Missing(el) == [kind |-> "missing", el |-> el, val |-> NoAttribute]

Retarget(sel, a) == [kind |-> "attr", el |-> sel, val |-> a]

NavDefects ==
    {Missing(el) : el \in NavElements}
    \cup UNION {{Retarget(sel, a) : a \in AttrValues(sel) \ {DefaultAttr[sel]}} :
                    sel \in AllSelectors}

PanelDefects == {Missing(el) : el \in PanelElements}

RECURSIVE UpTo(_, _)
UpTo(S, k) ==
    IF k = 0 THEN {{}}
    ELSE LET P == UpTo(S, k - 1) IN P \cup {q \cup {x} : q \in P, x \in S}

\* the sets of at most k defects, no element changed twice
DefectSets(S, k) ==
    {D \in UpTo(S, k) : \A d1, d2 \in D : d1.el = d2.el => d1 = d2}

PresentUnder(D) == AllElements \ {d.el : d \in {e \in D : e.kind = "missing"}}

AttrUnder(D) ==
    [sel \in AllSelectors |->
        IF \E d \in D : d.kind = "attr" /\ d.el = sel
        THEN (CHOOSE d \in D : d.kind = "attr" /\ d.el = sel).val
        ELSE DefaultAttr[sel]]

\* the page as the browser has parsed it, before DOMContentLoaded
Document(D) ==
    /\ script \in Scripts
    /\ present = PresentUnder(D)
    /\ attr = AttrUnder(D)
    /\ active = DefaultActive \cap present
    /\ value = DefaultValue
    /\ text = [d \in AllDisplays |-> Placeholder]
    /\ color = ""
    /\ listeners = {}
    /\ phase = "loading"
    /\ event = Event("none", "")
    /\ threw = FALSE
    /\ logged = {}
    /\ nEvents = 0

\* DOMContentLoaded: initApp runs
Load ==
    /\ phase = "loading"
    /\ phase' = "ready"
    /\ AppDone(initApp)
    /\ threw' = FALSE
    /\ event' = Event("load", "")
    /\ UNCHANGED <<markup, active, value, nEvents, args, result>>

\* a click on selector sel, which has a listener: the listener runs
ClickOn(sel) ==
    /\ phase = "ready"
    /\ sel \in listeners
    /\ event' = Event("click", sel)
    /\ ClickDone(ClickListener(sel))
    /\ UNCHANGED <<markup, value, text, color, listeners, phase, args, result>>

\* the user drags slider sl, which has a listener, to n: the input event
\* is dispatched and the listener runs
InputOn(sl, n) ==
    /\ phase = "ready"
    /\ sl \in listeners
    /\ n # value[sl]
    /\ value' = [value EXCEPT ![sl] = n]
    /\ event' = Event("input", sl)
    /\ DomWritten(InputListener(sl, value'))
    /\ logged' = {}
    /\ threw' = FALSE
    /\ UNCHANGED <<markup, active, listeners, phase, args, result>>

Click(sel) == ClickOn(sel) /\ UNCHANGED nEvents

Input(sl, n) == InputOn(sl, n) /\ UNCHANGED nEvents

SessionClick(sel) ==
    /\ nEvents < MaxEvents
    /\ nEvents' = nEvents + 1
    /\ ClickOn(sel)

SessionInput(sl, n) ==
    /\ nEvents < MaxEvents
    /\ nEvents' = nEvents + 1
    /\ InputOn(sl, n)

\* no law is called directly
NoCall == args = <<>> /\ result = <<>>

\* the whole page with at most one defect, a session of at most MaxEvents
\* user events
Init ==
    /\ \E D \in DefectSets(NavDefects \cup PanelDefects, 1) : Document(D)
    /\ NoCall

Next ==
    \/ Load
    \/ \E sel \in AllSelectors : SessionClick(sel)
    \/ \E sl \in AllSliders : \E n \in SliderValues(sl) : SessionInput(sl, n)

Spec == Init /\ [][Next]_vars

\* the navigation groups, any number of clicks
InitNav ==
    /\ \E D \in DefectSets(NavDefects, MaxDefects) : Document(D)
    /\ NoCall

NextNav ==
    \/ Load
    \/ \E sel \in AllSelectors : Click(sel)

SpecNav == InitNav /\ [][NextNav]_vars

\* the calculator panels, any number of input events
InitPanels ==
    /\ \E D \in DefectSets(PanelDefects, MaxDefects) : Document(D)
    /\ NoCall

NextPanels ==
    \/ Load
    \/ \E sl \in AllSliders : \E n \in SliderValues(sl) : Input(sl, n)

SpecPanels == InitPanels /\ [][NextPanels]_vars

\* the KVL panel of the complete page, any number of input events on its
\* sliders
InitBalance ==
    /\ Document({})
    /\ NoCall

NextBalance ==
    \/ Load
    \/ \E sl \in Sliders("kvl") : \E n \in Positions(sl) : Input(sl, n)

SpecBalance == InitBalance /\ [][NextBalance]_vars

(***************************************************************************)
(* The laws called directly, on the Numbers that decimal literals denote   *)
(***************************************************************************)
OhmsLawArgs == {-10000, -3000, 0, 100, 1000, 3000, 5000, 10000}

SumArgs == {-3000, 0, 100, 200, 3000, 4000}

BalancedArgs == {0, 9, 10, 20, 30, 10000, 10009, 10010, 10020, 11000, 12000}

Calls ==
    {<<"calculateOhmsLaw", v, r>> : v \in OhmsLawArgs, r \in OhmsLawArgs}
    \cup {<<f, a, b>> : f \in {"calculateKCL", "calculateKVL"}, a \in SumArgs, b \in SumArgs}
    \cup {<<"isKVLBalanced", a, b>> : a \in BalancedArgs, b \in BalancedArgs}

Apply(c) ==
    CASE c[1] = "calculateOhmsLaw" -> calculateOhmsLaw(parseFloat(c[2]), parseFloat(c[3]))
      [] c[1] = "calculateKCL" -> calculateKCL(parseFloat(c[2]), parseFloat(c[3]))
      [] c[1] = "calculateKVL" -> calculateKVL(parseFloat(c[2]), parseFloat(c[3]))
      [] c[1] = "isKVLBalanced" -> isKVLBalanced(parseFloat(c[2]), parseFloat(c[3]))

Returns == [c \in Calls |-> Apply(c)]

Calling(f) == Len(args) = 3 /\ args[1] = f

Returned(f) == Calling(f) /\ result # <<>>

Return ==
    /\ result = <<>>
    /\ result' = <<Returns[args]>>
    /\ UNCHANGED <<markup, active, value, text, color, listeners, phase, event,
                   threw, logged, nEvents, args>>

CallOhmsLaw ==
    /\ Calling("calculateOhmsLaw")
    /\ Return

CallKCL ==
    /\ Calling("calculateKCL")
    /\ Return

CallKVL ==
    /\ Calling("calculateKVL")
    /\ Return

CallBalanced ==
    /\ Calling("isKVLBalanced")
    /\ Return

InitLaws ==
    /\ Document({})
    /\ args \in Calls
    /\ result = <<>>

NextLaws == CallOhmsLaw \/ CallKCL \/ CallKVL \/ CallBalanced

SpecLaws == InitLaws /\ [][NextLaws]_vars

(***************************************************************************)
(* Properties                                                              *)
(***************************************************************************)
ActiveSelectors(g) == active \cap Selectors(g)

ActiveSections(g) == active \cap Sections(g)

GroupElements(g) == Selectors(g) \cup Sections(g)

\* what an id of group g's sections adds to the value of the target attribute
Suffix(g) ==
    CASE g = "main" -> ""
      [] g = "data" -> "-subsection"
      [] g = "tabs" -> "-panel"

\* the sections of sel's group that its target attribute identifies: one
\* section, or none if the target is missing
Targets(sel) ==
    {s \in querySections(GroupOf(sel)) :
        attr[sel] # NoAttribute /\ s = attr[sel][1] \o Suffix(GroupOf(sel))}

\* the markup has exactly one selector and one section of g active
StartsWithOne(g) ==
    /\ Cardinality(DefaultActive \cap querySelectors(g)) = 1
    /\ Cardinality(DefaultActive \cap querySections(g)) = 1

\* C1, as the specification states it: in each navigation group whose markup
\* has exactly one selector and one section active, exactly one selector and
\* exactly one section are active after any sequence of clicks, whatever the
\* selectors' targets are, targets naming no section included.
C1_ExactlyOneActive ==
    \A g \in Groups :
        StartsWithOne(g) =>
            /\ Cardinality(ActiveSelectors(g)) = 1
            /\ Cardinality(ActiveSections(g)) = 1

\* C2: after a click on a selector whose target section exists, the selector
\* is the only active selector of its group and the section its target
\* attribute identifies is the only active section of the group, whatever
\* was active before.
C2_TargetBecomesOnlyActive ==
    (event.type = "click" /\ Targets(event.target) # {}) =>
        /\ ActiveSelectors(GroupOf(event.target)) = {event.target}
        /\ ActiveSections(GroupOf(event.target)) = Targets(event.target)

\* a click switched the main navigation from nav1 and s1 to nav2 and s2
C2_Witness ==
    /\ event = Event("click", "nav2")
    /\ Targets("nav2") = {"s2"}
    /\ {"nav1", "s1"} \subseteq present
    /\ active \cap GroupElements("main") = {"nav2", "s2"}

\* C3, as the specification states it: a click on a selector whose target
\* is missing (no target attribute, or no section with that identifier)
\* changes the active status of no selector and no section of its group.
C3_MissingTargetIgnored ==
    [][(event'.type = "click" /\ Targets(event'.target) = {}) =>
            active' \cap GroupElements(GroupOf(event'.target))
                = active \cap GroupElements(GroupOf(event'.target))]_vars

\* C4, as the specification states it: no initialisation function and no
\* click or input handler ends in an uncaught error, whatever the markup is.
C4_NeverThrows == threw = FALSE

\* the derived value panel p shows is the one computed from its sliders
DerivedShown(p) ==
    CASE p = "ohm" ->
            text["current-value"] = CurrentText[value["voltage"], value["resistance"]]
      [] p = "kcl" ->
            text["i3-value"] = OutgoingText[value["i1"], value["i2"]]
      [] p = "kvl" ->
            text["voltage-sum-value"]
                = ValidationText[value["source-voltage"], value["v1"], value["v2"]].sum

\* C5: once initApp or the handler of an input event has run, the derived
\* value every initialised panel shows (Ohm's current, the KCL outgoing
\* current, the KVL drop sum) is the one computed from the slider values as
\* they are now, that is as of the most recent input event; nothing computed
\* from an earlier event stays on display.
C5_DerivedValueCurrent ==
    phase = "ready" =>
        \A p \in Panels : Sliders(p) \subseteq listeners => DerivedShown(p)

\* the resistance slider fired last, after the voltage slider had been moved
C5_Witness ==
    /\ event = Event("input", "resistance")
    /\ value["voltage"] = 0
    /\ value["resistance"] = 3000
    /\ text["current-value"] = "0.00 A"
    /\ text["resistance-value"] = "3.0 Ohm"

\* V / R for the arguments of the direct calls with R # 0
Quotients ==
    [v \in OhmsLawArgs, r \in OhmsLawArgs \ {0} |->
        Divide(parseFloat(v), parseFloat(r))]

\* the integer part of the magnitude of a finite Number
IntegerPart(x) == x.mag[FracLimbs + 1] + Base * x.mag[FracLimbs + 2]

Magnitude(n) == IF n < 0 THEN -n ELSE n

\* C6: calculateOhmsLaw(V, R) returns 0 when R = 0 and the quotient V / R
\* when R # 0, for positive, zero and negative V and R: the result is 0
\* whenever V = 0, it is always a finite number, and for R # 0 it is the
\* correctly rounded quotient, with the quotient's sign and integer part.
C6_OhmsLawQuotient ==
    Returned("calculateOhmsLaw") =>
        /\ isFinite(result[1])
        /\ args[3] = 0 => result[1] = Zero
        /\ args[2] = 0 => result[1] = Zero
        /\ args[3] # 0 =>
            /\ result[1] = Quotients[args[2], args[3]]
            /\ IntegerPart(result[1]) = Magnitude(args[2]) \div Magnitude(args[3])
            /\ args[2] # 0 => (result[1].neg <=> ((args[2] < 0) # (args[3] < 0)))

\* a non-zero voltage over a zero resistance returned 0
C6_Witness ==
    /\ Returned("calculateOhmsLaw")
    /\ args[2] = -10000
    /\ args[3] = 0
    /\ result = <<Zero>>

\* C7, as the specification states it: isKVLBalanced(S, D) is true exactly
\* when the difference of the decimal numbers S and D is strictly less than
\* 0.01 in magnitude; in particular it is false at a difference of exactly
\* 0.01.
C7_StrictlyBelowTolerance ==
    Returned("isKVLBalanced") =>
        (result[1] <=> Magnitude(args[2] - args[3]) < 10)

\* C7, amended: isKVLBalanced(S, D) is true when the decimal numbers S and D
\* differ by at most 0.009 and false when they differ by at least 0.011;
\* it gives the same result with S and D swapped; at a difference of
\* exactly 0.01 the rounding of the operands decides: false for 0.01 and 0,
\* true for 10.01 and 10.
C7_WithinTolerance ==
    Returned("isKVLBalanced") =>
        /\ Magnitude(args[2] - args[3]) <= 9 => result[1] = TRUE
        /\ Magnitude(args[2] - args[3]) >= 11 => result[1] = FALSE
        /\ result[1] = Returns[<<"isKVLBalanced", args[3], args[2]>>]
        /\ (args[2] = 10 /\ args[3] = 0) => result[1] = FALSE
        /\ (args[2] = 10010 /\ args[3] = 10000) => result[1] = TRUE

\* 10.01 and 10 were found balanced
C7_Witness ==
    /\ Returned("isKVLBalanced")
    /\ args[2] = 10010
    /\ args[3] = 10000
    /\ result = <<TRUE>>

\* the status the KVL sliders call for: balanced, or the absolute difference
ExpectedStatus ==
    [s \in SliderValues("source-voltage"), a \in SliderValues("v1"),
     b \in SliderValues("v2") |->
        IF isKVLBalanced(parseFloat(s), Plus(parseFloat(a), parseFloat(b)))
        THEN "Equation is balanced"
        ELSE "Difference: "
                \o toFixed(Abs(Minus(parseFloat(s), Plus(parseFloat(a), parseFloat(b)))), 2)
                \o " V"]

KVLValues == <<value["source-voltage"], value["v1"], value["v2"]>>

\* C8: once the KVL panel is initialised, and so after every input event on
\* one of its three sliders, the status display shows "balanced" exactly
\* when isKVLBalanced(source, v1 + v2) holds for the slider values as they
\* are now, and otherwise the absolute difference of source and v1 + v2;
\* source 12, v1 5, v2 6 shows the sum 11.00 V and the difference 1.00 V,
\* and source 12, v1 5, v2 7 shows balanced.
C8_StatusMatchesBalance ==
    (phase = "ready" /\ Sliders("kvl") \subseteq listeners) =>
        /\ text["kvl-validation"] = ExpectedStatus[KVLValues[1], KVLValues[2], KVLValues[3]]
        /\ KVLValues = <<12000, 5000, 6000>> =>
            /\ text["voltage-sum-value"] = "11.00 V"
            /\ text["kvl-validation"] = "Difference: 1.00 V"
        /\ KVLValues = <<12000, 5000, 7000>> =>
            /\ text["voltage-sum-value"] = "12.00 V"
            /\ text["kvl-validation"] = "Equation is balanced"

\* v1 was dragged to 10 and v2 to 7: the drops exceed the source by 5
C8_Witness ==
    /\ event.type = "input"
    /\ event.target \in Sliders("kvl")
    /\ KVLValues = <<12000, 10000, 7000>>
    /\ text["voltage-sum-value"] = "17.00 V"
    /\ text["kvl-validation"] = "Difference: 5.00 V"

\* the displays of the panels other than p
OtherDisplays(p) == AllDisplays \ Displays(p)

\* C9: a step of an input event on a slider of one panel leaves every
\* display of the other two panels and every active flag as it was, and a
\* step of a click on a selector of one navigation group leaves the active
\* flags of the other groups and every calculator display as they were.
C9_OwnPanelOrGroupOnly ==
    [][/\ event'.type = "input" =>
            /\ active' = active
            /\ \A d \in OtherDisplays(PanelOf(event'.target)) : text'[d] = text[d]
            /\ PanelOf(event'.target) # "kvl" => color' = color
       /\ event'.type = "click" =>
            /\ active' \ GroupElements(GroupOf(event'.target))
                = active \ GroupElements(GroupOf(event'.target))
            /\ text' = text
            /\ color' = color
            /\ value' = value]_vars

\* a click moved the main navigation to nav2, then the i1 slider was dragged
C9_Witness ==
    /\ nEvents = 2
    /\ event = Event("input", "i1")
    /\ active \cap GroupElements("main") = {"nav2", "s2"}
    /\ active \cap GroupElements("tabs") = {"tab1", "e1-panel"}
    /\ text["i3-value"] = "4.10 A"
    /\ text["current-value"] = "2.00 A"

\* the warning of the init of panel p
SkipMessage(p) ==
    CASE p = "ohm" -> "warn: Ohm's Law elements not found, skipping initialization"
      [] p = "kcl" -> "warn: KCL elements not found, skipping initialization"
      [] p = "kvl" -> "warn: KVL elements not found, skipping initialization"

\* C10, as the specification states it: the init of a panel with one of its
\* sliders or displays missing logs a warning, registers no input listener
\* and writes to no display, and initApp still initialises every panel and
\* navigation group whose elements are present.
C10_AllOrNothing ==
    phase = "ready" =>
        /\ \A p \in Panels :
            IF ElementsMissing(p)
            THEN /\ event.type = "load" => SkipMessage(p) \in logged
                 /\ listeners \cap Sliders(p) = {}
                 /\ \A d \in Displays(p) : text[d] = Placeholder
            ELSE /\ Sliders(p) \subseteq listeners
                 /\ \A d \in Displays(p) : text[d] # Placeholder
        /\ Selectors("main") \cup Selectors("tabs") \subseteq listeners

\* the decimal number n / DecimalScale, n a multiple of 10, written with two
\* decimals
Decimal2(n) ==
    (IF n < 0 THEN "-" ELSE "")
        \o ToString(Magnitude(n) \div DecimalScale)
        \o "." \o ToString((Magnitude(n) % DecimalScale) \div 100)
        \o ToString(((Magnitude(n) % DecimalScale) \div 10) % 10)

\* C11: calculateKCL(i1, i2) is the sum i1 + i2 and equals
\* calculateKCL(i2, i1): written with two decimals, as the outgoing current
\* is displayed, it is the decimal sum of the two currents whichever slider
\* holds which value; i1 = 3, i2 = 4 gives 7.00.
C11_KCLSumCommutes ==
    Returned("calculateKCL") =>
        /\ result[1] = Returns[<<"calculateKCL", args[3], args[2]>>]
        /\ toFixed(result[1], 2) = Decimal2(args[2] + args[3])
        /\ (args[2] = 3000 /\ args[3] = 4000) => toFixed(result[1], 2) = "7.00"

\* the currents 0.1 and -3 were added: the sum is written -2.90
C11_Witness ==
    /\ Returned("calculateKCL")
    /\ args[2] = 100
    /\ args[3] = -3000
    /\ toFixed(result[1], 2) = "-2.90"

\* the display of slider sl's own value
ValueDisplay(sl) == sl \o "-value"

\* C12: once initApp has initialised a panel, right after initialisation and
\* after any input events, each of the panel's value displays shows its
\* slider's current value, each derived display the value computed from the
\* current sliders, and no display of the panel holds the placeholder of
\* the markup, although an input event rewrites only its own slider's
\* value display.
C12_DisplaysShowSliders ==
    phase = "ready" =>
        \A p \in Panels :
            Sliders(p) \subseteq listeners =>
                /\ \A sl \in Sliders(p) :
                        text[ValueDisplay(sl)] = ValueText[sl][value[sl]]
                /\ DerivedShown(p)
                /\ p = "kvl" =>
                        text["kvl-validation"]
                            = ValidationText[KVLValues[1], KVLValues[2], KVLValues[3]].status
                /\ \A d \in Displays(p) : text[d] # Placeholder

\* the voltage slider fired last; the resistance display still shows what
\* an earlier event wrote and the KCL displays what initKCL wrote
C12_Witness ==
    /\ event = Event("input", "voltage")
    /\ value["voltage"] = 0
    /\ value["resistance"] = 3000
    /\ text["voltage-value"] = "0.0 V"
    /\ text["resistance-value"] = "3.0 Ohm"
    /\ text["i1-value"] = "3.0 A"
    /\ text["i3-value"] = "7.00 A"

\* the decimal difference of the source and the two drops, in 1/DecimalScale
DecimalDifference == Magnitude(KVLValues[1] - (KVLValues[2] + KVLValues[3]))

\* n / DecimalScale has at most one decimal: a multiple of the slider step
OneDecimal(n) == n % (DecimalScale \div 10) = 0

\* C13: whenever the initialised KVL panel shows the unbalanced status, the
\* difference it shows is the two-decimal difference of the source and the
\* drops and is at least 0.01, never 0.00; and whenever the sliders hold
\* multiples of the step and the two-decimal drop sum shown equals the
\* source voltage, the status shown is the balanced one.
C13_DifferenceShownOrBalanced ==
    (phase = "ready" /\ Sliders("kvl") \subseteq listeners) =>
        /\ text["kvl-validation"] # "Equation is balanced" =>
            /\ text["kvl-validation"]
                = "Difference: " \o Decimal2(DecimalDifference) \o " V"
            /\ DecimalDifference >= 10
            /\ text["kvl-validation"] # "Difference: 0.00 V"
        /\ ((\A i \in 1..3 : OneDecimal(KVLValues[i]))
             /\ text["voltage-sum-value"] = Decimal2(KVLValues[1]) \o " V") =>
                text["kvl-validation"] = "Equation is balanced"

\* source 0.3 against drops 0.1 and 0.2, whose sum is no double equal to
\* 0.3: the sum is shown as 0.30 V and the status is balanced
C13_Witness ==
    /\ event.type = "input"
    /\ KVLValues = <<300, 100, 200>>
    /\ text["voltage-sum-value"] = "0.30 V"
    /\ text["kvl-validation"] = "Equation is balanced"

====
